---- MODULE Spec2Model ----
(***************************************************************************)
(* Model of xnord-gen's config_generator.py: the NordVPN endpoint lookup   *)
(* (NordVPNClient.get_recommended_server), the Xray and Compose builders,  *)
(* and the orchestrator main().                                            *)
(***************************************************************************)
EXTENDS Integers, Sequences, FiniteSets, TLC

VARIABLES
    env,               \* the process environment Settings.load reads
    settings,          \* Settings, None before Settings.load has run
    pc,                \* position of main()
    exit_code,         \* process exit status once main() has ended, -1 before
    keys,              \* <<dec_key, enc_key>> of main() after key generation
    port,              \* XrayConfigBuilder.port
    decryption_key,    \* XrayConfigBuilder.decryption_key
    clients,           \* XrayConfigBuilder.clients
    outbounds,         \* XrayConfigBuilder.outbounds
    routing_rules,     \* XrayConfigBuilder.routing_rules
    services,          \* ComposeBuilder.services, in insertion order (a dict)
    xray_depends_on,   \* ComposeBuilder.xray_depends_on
    all_countries,     \* main(): the directory's answer, <<>> when it is not in use
    target_countries,  \* main(): the filtered country list
    idx,               \* main(): index of the country the loop is at
    next_uuid,         \* number of uuid.uuid4() values drawn so far
    files,             \* the artifacts written: file name -> document
    links,             \* the client links print_vless_links has printed
    lpc,               \* position of get_recommended_server
    attempt,           \* get_recommended_server: the loop variable
    data,              \* get_recommended_server: the local `data`
    server,            \* the value get_recommended_server returned
    trace,             \* history: what the lookup did (GETs and sleeps)
    skipped,           \* history: indexes of the countries main() skipped
    built,             \* history: the last document XrayConfigBuilder.build returned
    calls,             \* history: number of builder calls made by a free driver
    last_call,         \* history: the builder method the free driver called last
    keygen             \* history: what `xray vlessenc` did in this run, None before

lookupVars  == <<lpc, attempt, data, server, trace>>
xrayVars    == <<port, decryption_key, clients, outbounds, routing_rules>>
composeVars == <<services, xray_depends_on>>
mainVars    == <<env, settings, pc, exit_code, keys, target_countries, idx, next_uuid,
                 files, links, skipped>>
vars == <<lookupVars, xrayVars, composeVars, mainVars, built, calls, last_call, keygen,
          all_countries>>

(***************************************************************************)
(* Bounds of the model.                                                    *)
(***************************************************************************)
MaxPool    == 2   \* candidates in one directory response (endpoint lookup alone)
MaxCatalog == 2   \* countries in the directory's catalog
MaxCalls   == 3   \* builder calls made by a free driver

(***************************************************************************)
(* Program constants.                                                      *)
(***************************************************************************)
WireGuardTech == 35    \* filters[servers_technologies][id] and the id tested
MaxAttempts   == 3     \* range(3)
DefaultLoad   == 100   \* x.get('load', 100)
WireGuardPort == 51820
ShadowsocksPort == 8388
DefaultPort   == 10000

None == [none |-> TRUE]

(***************************************************************************)
(* Python helpers.                                                         *)
(***************************************************************************)
Range(s) == {s[i] : i \in 1..Len(s)}

\* dict.get('load', 100) on a candidate: NoLoad stands for a missing key.
NoLoad == -1
load_key(x) == IF x.load = NoLoad THEN DefaultLoad ELSE x.load

\* list.sort(key=lambda x: x.get('load', 100)): stable and ascending. x goes
\* behind every element whose key is <= its own, so equal keys keep their order.
RECURSIVE insert_sorted(_, _)
insert_sorted(sorted, x) ==
    IF sorted = <<>> THEN <<x>>
    ELSE IF load_key(Head(sorted)) <= load_key(x)
         THEN <<Head(sorted)>> \o insert_sorted(Tail(sorted), x)
         ELSE <<x>> \o sorted

RECURSIVE sort_by_load(_)
sort_by_load(list) ==
    IF list = <<>> THEN <<>>
    ELSE insert_sorted(sort_by_load(SubSeq(list, 1, Len(list) - 1)), list[Len(list)])

(***************************************************************************)
(* What the directory may answer. A candidate is a server of the v2 API:   *)
(* hostname, station, load (or none) and its technologies, each with an id *)
(* and a metadata list of name/value pairs. The candidate at position i of *)
(* a response has hostname i and station i, so candidates are told apart.  *)
(***************************************************************************)
KeyNames == <<"KA", "KB", "KC", "KD", "KE">>
Loads == {10, 40, NoLoad}
Technologies(i) ==
    { <<>>,                                                    \* no technology listed
      << [id |-> WireGuardTech, metadata |-> <<>>] >>,         \* WireGuard, no key
      << [id |-> WireGuardTech,
          metadata |-> << [name |-> "public_key", value |-> KeyNames[i]] >>] >>,
      << [id |-> 3,                                            \* a key of another technology
          metadata |-> << [name |-> "public_key", value |-> "KX"] >>] >> }

Candidates(i) ==
    { [hostname |-> i, station |-> i, load |-> l, technologies |-> t] :
        l \in Loads, t \in Technologies(i) }

PoolsOfLen(n) == { p \in [1..n -> UNION {Candidates(i) : i \in 1..n}] :
                     \A i \in 1..n : p[i] \in Candidates(i) }
PoolsUpTo(n) == UNION { PoolsOfLen(m) : m \in 0..n }

\* The local `data`: None, or the list json_resp.get('servers') gave.
NoData == [is_none |-> TRUE, list |-> <<>>]
Servers(list) == [is_none |-> FALSE, list |-> list]

\* json_resp.get('servers'): the list, or None when the key is missing.
ServersValues(n) == {Servers(p) : p \in PoolsUpTo(n)} \cup {NoData}

\* Python truthiness of `data`: None and the empty list are false.
Truthy(d) == ~d.is_none /\ d.list # <<>>

(***************************************************************************)
(* get_recommended_server, lines 122-147: what it returns from a non-empty *)
(* candidate list.                                                         *)
(***************************************************************************)
\* lines 133-136: the first metadata entry named public_key, as <<value>>;
\* <<>> when there is none.
RECURSIVE first_public_key(_)
first_public_key(metadata) ==
    IF metadata = <<>> THEN <<>>
    ELSE IF Head(metadata).name = "public_key" THEN <<Head(metadata).value>>
         ELSE first_public_key(Tail(metadata))

\* Mutation of is_wireguard: the technology id is not tested.
is_wireguard_any(tech) == TRUE

\* The test of line 132.
is_wireguard(tech) == tech.id = WireGuardTech

\* lines 130-136: public_key after the loop over the technologies, <<>> for
\* None. The inner break leaves only the metadata loop, so a later WireGuard
\* entry with a key overwrites an earlier one.
RECURSIVE extract_public_key(_, _)
extract_public_key(technologies, public_key) ==
    IF technologies = <<>> THEN public_key
    ELSE LET tech == Head(technologies)
             found == IF is_wireguard(tech) THEN first_public_key(tech.metadata) ELSE <<>>
         IN extract_public_key(Tail(technologies),
                               IF found # <<>> THEN found ELSE public_key)

\* `not public_key`: None or the empty string.
no_key(public_key) == public_key = <<>> \/ public_key[1] = ""

\* lines 122-147.
select_server(d) ==
    LET sorted == sort_by_load(d)
        chosen == sorted[1]
        public_key == extract_public_key(chosen.technologies, <<>>)
    IN IF no_key(public_key) THEN None
       ELSE [address |-> chosen.station, port |-> WireGuardPort,
             public_key |-> public_key[1], hostname |-> chosen.hostname,
             country |-> "UNKNOWN"]

(***************************************************************************)
(* XrayConfigBuilder. A routing rule is a record with every key the code   *)
(* may set; <<>> stands for a key the rule does not have. An outbound      *)
(* without a settings key has settings = None.                             *)
(***************************************************************************)
Rule(user, tag, ip, domain) ==
    [type |-> "field", user |-> user, outboundTag |-> tag, ip |-> ip, domain |-> domain]

\* __init__, lines 158-165
initial_outbounds ==
    << [tag |-> "blocked", protocol |-> "blackhole", settings |-> None],
       [tag |-> "direct", protocol |-> "freedom", settings |-> None] >>

\* __init__, lines 160-172
initial_routing_rules == << Rule(<<>>, "blocked", <<>>, <<"geosite:cn">>) >>

\* Mutation of add_routing_rule: the list is assigned, not appended to.
add_routing_rule_assigned(rules, user_email, outbound_tag) ==
    << Rule(<<user_email>>, outbound_tag, <<>>, <<>>) >>

\* Mutation of add_blocking_rule: the rule is appended, not inserted in front.
add_blocking_rule_appended(rules, user_email, ip_list, domain_list) ==
    rules \o <<Rule(<<user_email>>, "blocked", ip_list, domain_list)>>

\* Mutation of add_wireguard_outbound: the outbound is inserted in front.
add_wireguard_outbound_front(obs, tag, private_key, server_address, server_port, public_key) ==
    << [tag |-> tag, protocol |-> "wireguard",
        settings |-> [secretKey |-> private_key,
                      address |-> <<"10.5.0.2/32">>,
                      peers |-> << [publicKey |-> public_key,
                                    endpoint |-> <<server_address, server_port>>] >>]] >>
    \o obs

\* add_client: the new client list (the id is the uuid4 drawn by the call)
add_client(cl, client_id, email) ==
    Append(cl, [id |-> client_id, email |-> email, flow |-> "xtls-rprx-vision"])

add_routing_rule(rules, user_email, outbound_tag) ==
    Append(rules, Rule(<<user_email>>, outbound_tag, <<>>, <<>>))

\* add_blocking_rule: `if ip_list` / `if domain_list` set the key only for a
\* non-empty list; insert(0, rule) puts the rule in front.
add_blocking_rule(rules, user_email, ip_list, domain_list) ==
    <<Rule(<<user_email>>, "blocked", ip_list, domain_list)>> \o rules

add_wireguard_outbound(obs, tag, private_key, server_address, server_port, public_key) ==
    Append(obs, [tag |-> tag, protocol |-> "wireguard",
                 settings |-> [secretKey |-> private_key,
                               address |-> <<"10.5.0.2/32">>,
                               peers |-> << [publicKey |-> public_key,
                                             endpoint |-> <<server_address, server_port>>] >>]])

add_socks_outbound(obs, tag, server_address, server_port) ==
    Append(obs, [tag |-> tag, protocol |-> "socks",
                 settings |-> [servers |-> << [address |-> server_address,
                                               port |-> server_port] >>]])

add_shadowsocks_outbound(obs, tag, server_address, server_port, method, password) ==
    Append(obs, [tag |-> tag, protocol |-> "shadowsocks",
                 settings |-> [servers |-> << [address |-> server_address,
                                               port |-> server_port,
                                               method |-> method,
                                               password |-> password] >>]])

\* build: the document, with the builder's fields as they are.
build(p, key, cl, obs, rules) ==
    [log |-> [loglevel |-> "warning"],
     inbounds |-> << [port |-> p, listen |-> "0.0.0.0", protocol |-> "vless",
                      settings |-> [clients |-> cl, decryption |-> key],
                      streamSettings |-> [network |-> "xhttp",
                                          xhttpSettings |-> [path |-> "/xray"]]] >>,
     outbounds |-> obs,
     routing |-> [domainStrategy |-> "IPIfNonMatch", rules |-> rules]]

(***************************************************************************)
(* ComposeBuilder. services is a dict: a sequence of <<name, service>> in  *)
(* insertion order, where assigning an existing name replaces its value.   *)
(***************************************************************************)
RECURSIVE dict_set(_, _, _)
dict_set(d, k, v) ==
    IF d = <<>> THEN << <<k, v>> >>
    ELSE IF Head(d)[1] = k THEN << <<k, v>> >> \o Tail(d)
         ELSE <<Head(d)>> \o dict_set(Tail(d), k, v)

dict_keys(d) == {d[i][1] : i \in 1..Len(d)}
dict_get(d, k) == (CHOOSE i \in 1..Len(d) : d[i][1] = k)
dict_value(d, k) == d[dict_get(d, k)][2]

ShadowsocksMethod == "chacha20-ietf-poly1305"

\* add_gluetun_service, lines 310-328: the environment, as name/value pairs.
\* "" stands for a string argument left at None, 0 for ss_password left at None
\* (a password is the number of the uuid4 it was made from).
gluetun_env(nord_private_key, server_hostname, country, ss_password) ==
    << [name |-> "VPN_SERVICE_PROVIDER", value |-> "nordvpn"],
       [name |-> "VPN_TYPE", value |-> "wireguard"],
       [name |-> "DNS_ADDRESS", value |-> "1.1.1.1"],
       [name |-> "WIREGUARD_PRIVATE_KEY", value |-> nord_private_key] >>
    \o (IF server_hostname # "" THEN << [name |-> "SERVER_HOSTNAME", value |-> server_hostname] >>
        ELSE IF country # "" THEN << [name |-> "SERVER_COUNTRIES", value |-> country] >>
        ELSE <<>>)
    \o (IF ss_password # 0
        THEN << [name |-> "SHADOWSOCKS", value |-> "on"],
                [name |-> "SHADOWSOCKS_PASSWORD", value |-> ss_password],
                [name |-> "SHADOWSOCKS_METHOD", value |-> ShadowsocksMethod] >>
        ELSE <<>>)

\* add_gluetun_service, lines 330-337: the new services dict
add_gluetun_service(svcs, name, nord_private_key, server_hostname, country, ss_password) ==
    dict_set(svcs, name,
             [image |-> "qmcgaw/gluetun", container_name |-> name,
              cap_add |-> <<"NET_ADMIN">>,
              environment |-> gluetun_env(nord_private_key, server_hostname,
                                          country, ss_password),
              networks |-> <<"xray_net">>, restart |-> "always",
              depends_on |-> <<>>])

\* Mutation of add_dependency: the list is assigned, not appended to.
add_dependency_assigned(deps, name) == <<name>>

\* add_gluetun_service, line 338: the new xray_depends_on
add_dependency(deps, name) == Append(deps, name)

\* add_xray_service stores the list object xray_depends_on itself (line 350),
\* so a later append (line 338) shows in the stored "xray" service: its
\* depends_on, once set, is always the current list.
alias_depends_on(svcs, deps) ==
    [i \in 1..Len(svcs) |->
        IF svcs[i][1] = "xray" /\ svcs[i][2].depends_on # <<>>
        THEN <<"xray", [svcs[i][2] EXCEPT !.depends_on = deps]>>
        ELSE svcs[i]]

\* add_xray_service: depends_on is set only when the list is not empty
\* (<<>> stands for the missing key).
add_xray_service(svcs, deps, p) ==
    dict_set(svcs, "xray",
             [image |-> "teddysun/xray", container_name |-> "xray",
              volumes |-> <<"./config.json:/etc/xray/config.json">>,
              ports |-> << <<p, p>> >>,
              networks |-> <<"xray_net">>, restart |-> "always",
              depends_on |-> deps])

\* ComposeBuilder.__init__, lines 292-304; "" is no network name.
compose_networks(network_name) ==
    IF network_name # ""
    THEN [xray_net |-> [name |-> network_name, external |-> TRUE]]
    ELSE [xray_net |-> [driver |-> "bridge"]]

compose_build(svcs, network_name) ==
    [version |-> "3", services |-> svcs, networks |-> compose_networks(network_name)]

(***************************************************************************)
(* get_recommended_server, lines 105-150, one step per GET, sleep and      *)
(* return. The candidates of the model always carry hostname and station,  *)
(* so the only exception reaching line 149 is the re-raised                *)
(* RequestException of line 116.                                           *)
(***************************************************************************)
\* The call: line 106.
lookup_called ==
    /\ lpc' = "get"
    /\ attempt' = 0
    /\ data' = NoData
    /\ trace' = <<>>
    /\ UNCHANGED server

\* lines 109-110 raise a RequestException (a timeout, a connection error, an
\* HTTP error status); lines 115-117, and line 149 for the third one.
LookupGetFails ==
    /\ lpc = "get"
    /\ trace' = Append(trace, "get_failed")
    /\ IF attempt = MaxAttempts - 1
       THEN lpc' = "returned" /\ server' = None
       ELSE lpc' = "sleep" /\ UNCHANGED server
    /\ UNCHANGED <<attempt, data>>
    /\ UNCHANGED <<mainVars, xrayVars, composeVars, built, calls, last_call, keygen,
                   all_countries>>

\* line 117, then the next iteration of the loop
LookupSleep ==
    /\ lpc = "sleep"
    /\ trace' = Append(trace, "sleep")
    /\ attempt' = attempt + 1
    /\ lpc' = "get"
    /\ UNCHANGED <<data, server>>
    /\ UNCHANGED <<mainVars, xrayVars, composeVars, built, calls, last_call, keygen,
                   all_countries>>

\* What the directory may answer to one GET: any pool up to MaxPool when the
\* lookup is driven alone, one candidate at most inside a whole run.
DirectoryAnswers ==
    IF pc = "lookup_alone"
    THEN ServersValues(MaxPool)
    ELSE {NoData, Servers(<<>>)} \cup { Servers(p) : p \in {q \in PoolsOfLen(1) : q[1].load = 10} }

\* lines 109-114: the GET is answered; `servers` is what json_resp.get('servers')
\* gives. A falsy value does not break: the loop goes on to the next attempt,
\* or ends after the third.
LookupGetResponds ==
    /\ lpc = "get"
    /\ \E servers \in DirectoryAnswers :
        /\ data' = servers
        /\ trace' = Append(trace, "get_ok")
        /\ IF Truthy(servers) \/ attempt = MaxAttempts - 1
           THEN lpc' = "rank" /\ UNCHANGED attempt
           ELSE lpc' = "get" /\ attempt' = attempt + 1
    /\ UNCHANGED server
    /\ UNCHANGED <<mainVars, xrayVars, composeVars, built, calls, last_call, keygen,
                   all_countries>>

\* lines 119-147; data.sort sorts the list in place.
LookupReturns ==
    /\ lpc = "rank"
    /\ IF ~Truthy(data)
       THEN server' = None /\ UNCHANGED data
       ELSE /\ server' = select_server(data.list)
            /\ data' = Servers(sort_by_load(data.list))
    /\ lpc' = "returned"
    /\ UNCHANGED <<attempt, trace>>
    /\ UNCHANGED <<mainVars, xrayVars, composeVars, built, calls, last_call, keygen,
                   all_countries>>

(***************************************************************************)
(* The environment and what the outside world may answer in a run.         *)
(***************************************************************************)
\* str.upper / str.lower on the strings of the model
upper(str) ==
    CASE str \in {"us", "US"} -> "US"
      [] str \in {"jp", "Jp", "JP"} -> "JP"
      [] str \in {"direct", "DIRECT"} -> "DIRECT"
      [] str \in {"true", "True"} -> "TRUE"
      [] OTHER -> str

lower(str) ==
    CASE str \in {"us", "US"} -> "us"
      [] str \in {"jp", "Jp", "JP"} -> "jp"
      [] str \in {"direct", "DIRECT"} -> "direct"
      [] str \in {"true", "True"} -> "true"
      [] OTHER -> str

\* "" is a variable that is not set (or set to the empty string); NORD_COUNTRIES
\* is given as the items between its commas, XRAY_PORT as a number, 0 if unset.
Environments ==
    [NORD_PRIVATE_KEY : {"", "PRIV"},
     NORD_COUNTRIES : {<<>>, <<"us">>, <<"us", "jp", "direct">>},
     XRAY_PORT : {0, 8443},
     ENABLE_DIRECT : {"", "True"},
     ENABLE_GLUETUN : {"", "true"}]

\* The countries of the directory: code, name, id.
Countries ==
    { [code |-> "US", name |-> "United States", id |-> 228],
      [code |-> "Jp", name |-> "Japan", id |-> 108],
      [code |-> "DIRECT", name |-> "Directland", id |-> 1] }

Catalogs == UNION { [1..n -> Countries] : n \in 0..MaxCatalog }

\* What `xray vlessenc` may do: fail, or print text in which each of the two
\* patterns of lines 274-275 is found or not ("" for no match).
KeygenOutputs ==
    { o \in [failed : BOOLEAN, decryption : {"", "DEC"}, encryption : {"", "ENC"}] :
        o.failed => (o.decryption = "" /\ o.encryption = "") }

RECURSIVE filter_countries(_, _)
filter_countries(countries, wanted) ==
    IF countries = <<>> THEN <<>>
    ELSE (IF upper(Head(countries).code) \in Range(wanted)
          THEN <<Head(countries)>> ELSE <<>>)
         \o filter_countries(Tail(countries), wanted)

\* Mutation of generate_keys: the matches are returned without testing both.
generate_keys_untested(out) ==
    IF out.failed THEN <<"", "">> ELSE <<out.decryption, out.encryption>>

\* generate_keys, lines 272-283: (None, None) is <<"", "">>
generate_keys(out) ==
    IF out.failed THEN <<"", "">>
    ELSE IF out.decryption # "" /\ out.encryption # ""
         THEN <<out.decryption, out.encryption>>
         ELSE <<"", "">>

\* main, lines 435-438
fallback_keys(k) == IF k[1] = "" THEN <<"none", "none">> ELSE k

\* main, lines 477-478 and 482
\* The f-strings of main, lines 477, 478 and 482, on the lower-cased codes of
\* the model.
email_of(lc) ==
    CASE lc = "us" -> "us.user@example.com"
      [] lc = "jp" -> "jp.user@example.com"
      [] lc = "direct" -> "direct.user@example.com"

tag_of(lc) ==
    CASE lc = "us" -> "nordvpn-us"
      [] lc = "jp" -> "nordvpn-jp"
      [] lc = "direct" -> "nordvpn-direct"

service_name_of(lc) ==
    CASE lc = "us" -> "gluetun-us"
      [] lc = "jp" -> "gluetun-jp"
      [] lc = "direct" -> "gluetun-direct"

direct_email == "direct.user@example.com"

\* print_vless_links, lines 373-380: the link of one client, as its parts
link_of(c, domain, encryption_key) ==
    [id |-> c.id, domain |-> domain, encryption |-> encryption_key,
     label |-> IF c.email = "direct.user@example.com" THEN "Direct"
               ELSE CASE c.email = "us.user@example.com" -> "Nord-US"
                      [] c.email = "jp.user@example.com" -> "Nord-JP"
                      [] OTHER -> "Nord-?"]

print_vless_links(cl, domain, encryption_key) ==
    [i \in 1..Len(cl) |-> link_of(cl[i], domain, encryption_key)]

(***************************************************************************)
(* main(), the run that generates the configuration (the list-countries    *)
(* command of lines 421-426 is not part of it).                            *)
(***************************************************************************)
NoFiles == [config |-> None, compose |-> None]

Unbuilt ==
    /\ port = 0
    /\ decryption_key = ""
    /\ clients = <<>>
    /\ outbounds = <<>>
    /\ routing_rules = <<>>
    /\ services = <<>>
    /\ xray_depends_on = <<>>

LookupIdle ==
    /\ lpc = "idle"
    /\ attempt = 0
    /\ data = NoData
    /\ server = None
    /\ trace = <<>>

Init ==
    /\ env \in Environments
    /\ settings = None
    /\ pc = "load_settings"
    /\ exit_code = -1
    /\ keys = <<"", "">>
    /\ target_countries = <<>>
    /\ idx = 0
    /\ next_uuid = 0
    /\ files = NoFiles
    /\ links = <<>>
    /\ skipped = {}
    /\ built = None
    /\ calls = 0
    /\ last_call = ""
    /\ keygen = None
    /\ all_countries = <<>>
    /\ Unbuilt
    /\ LookupIdle

\* sys.exit(1)
exit_fatal ==
    /\ pc' = "exit"
    /\ exit_code' = 1

\* Settings.load, lines 31-59
LoadSettings ==
    /\ pc = "load_settings"
    /\ IF env.NORD_PRIVATE_KEY = "" \/ env.NORD_COUNTRIES = <<>>
       THEN exit_fatal /\ UNCHANGED settings
       ELSE /\ settings' =
                 [nord_private_key |-> env.NORD_PRIVATE_KEY,
                  nord_countries |-> [i \in 1..Len(env.NORD_COUNTRIES) |->
                                         upper(env.NORD_COUNTRIES[i])],
                  xray_port |-> IF env.XRAY_PORT = 0 THEN DefaultPort ELSE env.XRAY_PORT,
                  enable_direct |-> (lower(env.ENABLE_DIRECT) = "true"),
                  enable_gluetun |-> (lower(env.ENABLE_GLUETUN) = "true"),
                  xray_domain |-> "<YOUR_DOMAIN>",
                  xray_network |-> ""]
            /\ pc' = "generate_keys"
            /\ UNCHANGED exit_code
    /\ UNCHANGED <<env, keys, target_countries, idx, next_uuid, files, links, skipped>>
    /\ UNCHANGED <<lookupVars, xrayVars, composeVars, built, calls, last_call, keygen,
                   all_countries>>

\* main, lines 434-440
GenerateKeys ==
    /\ pc = "generate_keys"
    /\ \E out \in KeygenOutputs :
         /\ keys' = fallback_keys(generate_keys(out))
         /\ keygen' = out
    /\ pc' = "init_builders"
    /\ UNCHANGED <<env, settings, exit_code, target_countries, idx, next_uuid, files,
                   links, skipped>>
    /\ UNCHANGED <<lookupVars, xrayVars, composeVars, built, calls, last_call,
                   all_countries>>

\* main, lines 443-445: XrayConfigBuilder.__init__ and ComposeBuilder.__init__
InitBuilders ==
    /\ pc = "init_builders"
    /\ port' = settings.xray_port
    /\ decryption_key' = keys[1]
    /\ clients' = <<>>
    /\ outbounds' = initial_outbounds
    /\ routing_rules' = initial_routing_rules
    /\ services' = <<>>
    /\ xray_depends_on' = <<>>
    /\ pc' = "get_all_countries"
    /\ UNCHANGED <<env, settings, exit_code, keys, target_countries, idx, next_uuid,
                   files, links, skipped>>
    /\ UNCHANGED <<lookupVars, built, calls, last_call, keygen,
                   all_countries>>

\* get_all_countries raises inside its try: lines 90-92
GetAllCountriesFails ==
    /\ pc = "get_all_countries"
    /\ exit_fatal
    /\ UNCHANGED <<env, settings, keys, target_countries, idx, next_uuid, files, links,
                   skipped>>
    /\ UNCHANGED <<lookupVars, xrayVars, composeVars, built, calls, last_call, keygen,
                   all_countries>>

\* Mutation of FilterCountries: an empty filtered list is not tested.
FilterCountries_unchecked ==
    /\ pc = "filter_countries"
    /\ target_countries' = filter_countries(all_countries, settings.nord_countries)
    /\ idx' = 1
    /\ pc' = "loop"
    /\ all_countries' = <<>>
    /\ UNCHANGED exit_code
    /\ UNCHANGED <<env, settings, keys, next_uuid, files, links, skipped>>
    /\ UNCHANGED <<lookupVars, xrayVars, composeVars, built, calls, last_call, keygen>>

\* main, line 448: get_all_countries returns the directory's list, lines 85-89
GetAllCountries ==
    /\ pc = "get_all_countries"
    /\ \E answer \in Catalogs : all_countries' = answer
    /\ pc' = "filter_countries"
    /\ UNCHANGED <<env, settings, exit_code, keys, target_countries, idx, next_uuid,
                   files, links, skipped>>
    /\ UNCHANGED <<lookupVars, xrayVars, composeVars, built, calls, last_call, keygen>>

\* main, lines 449-455; all_countries is not read after line 449
FilterCountries ==
    /\ pc = "filter_countries"
    /\ LET target == filter_countries(all_countries, settings.nord_countries)
       IN IF target = <<>>
          THEN exit_fatal /\ UNCHANGED <<target_countries, idx>>
          ELSE /\ target_countries' = target
               /\ idx' = 1
               /\ pc' = "loop"
               /\ UNCHANGED exit_code
    /\ all_countries' = <<>>
    /\ UNCHANGED <<env, settings, keys, next_uuid, files, links, skipped>>
    /\ UNCHANGED <<lookupVars, xrayVars, composeVars, built, calls, last_call, keygen>>

\* Mutation of StartLookup: the lookup is called in either strategy.
StartLookup_any_strategy ==
    /\ pc = "loop"
    /\ idx <= Len(target_countries)
    /\ lookup_called
    /\ pc' = "lookup"
    /\ UNCHANGED <<env, settings, exit_code, keys, target_countries, idx, next_uuid,
                   files, links, skipped>>
    /\ UNCHANGED <<xrayVars, composeVars, built, calls, last_call, keygen,
                   all_countries>>

\* main, lines 468-470: the loop is at a country and calls the lookup
StartLookup ==
    /\ pc = "loop"
    /\ idx <= Len(target_countries)
    /\ ~settings.enable_gluetun
    /\ lookup_called
    /\ pc' = "lookup"
    /\ UNCHANGED <<env, settings, exit_code, keys, target_countries, idx, next_uuid,
                   files, links, skipped>>
    /\ UNCHANGED <<xrayVars, composeVars, built, calls, last_call, keygen,
                   all_countries>>

\* Mutation of SkipCountry: a country without a server ends the run.
SkipCountry_exits ==
    /\ pc = "lookup"
    /\ lpc = "returned"
    /\ server = None
    /\ skipped' = skipped \cup {idx}
    /\ pc' = "exit"
    /\ exit_code' = 1
    /\ lpc' = "idle"
    /\ UNCHANGED <<attempt, data, server, trace>>
    /\ UNCHANGED <<env, settings, keys, target_countries, idx, next_uuid, files, links>>
    /\ UNCHANGED <<xrayVars, composeVars, built, calls, last_call, keygen,
                   all_countries>>

\* Mutation of SkipCountry: the loop stays at the country it skipped.
SkipCountry_stays ==
    /\ pc = "lookup"
    /\ lpc = "returned"
    /\ server = None
    /\ skipped' = skipped \cup {idx}
    /\ pc' = "loop"
    /\ lpc' = "idle"
    /\ UNCHANGED <<attempt, data, server, trace>>
    /\ UNCHANGED <<env, settings, exit_code, keys, target_countries, idx, next_uuid,
                   files, links>>
    /\ UNCHANGED <<xrayVars, composeVars, built, calls, last_call, keygen,
                   all_countries>>

\* main, lines 471-473: `continue`
SkipCountry ==
    /\ pc = "lookup"
    /\ lpc = "returned"
    /\ server = None
    /\ skipped' = skipped \cup {idx}
    /\ idx' = idx + 1
    /\ pc' = "loop"
    /\ lpc' = "idle"
    /\ UNCHANGED <<attempt, data, server, trace>>
    /\ UNCHANGED <<env, settings, exit_code, keys, target_countries, next_uuid, files,
                   links>>
    /\ UNCHANGED <<xrayVars, composeVars, built, calls, last_call, keygen,
                   all_countries>>

\* main, lines 474-479 and 503-514: a country with a server, WireGuard mode
AddWireguardCountry ==
    /\ pc = "lookup"
    /\ lpc = "returned"
    /\ server # None
    /\ LET lc == lower(target_countries[idx].code)
       IN /\ clients' = add_client(clients, next_uuid + 1, email_of(lc))
          /\ outbounds' = add_wireguard_outbound(outbounds, tag_of(lc),
                              settings.nord_private_key, server.address, server.port,
                              server.public_key)
          /\ routing_rules' = add_routing_rule(routing_rules, email_of(lc), tag_of(lc))
    /\ next_uuid' = next_uuid + 1
    /\ idx' = idx + 1
    /\ pc' = "loop"
    /\ lpc' = "idle"
    /\ UNCHANGED <<attempt, data, server, trace>>
    /\ UNCHANGED <<env, settings, exit_code, keys, target_countries, files, links,
                   skipped>>
    /\ UNCHANGED <<port, decryption_key, composeVars, built, calls, last_call, keygen,
                   all_countries>>

\* main, lines 476-502 and 514: a country in Gluetun mode
AddGluetunCountry ==
    /\ pc = "loop"
    /\ idx <= Len(target_countries)
    /\ settings.enable_gluetun
    /\ LET lc == lower(target_countries[idx].code)
           ss_password == next_uuid + 2
       IN /\ clients' = add_client(clients, next_uuid + 1, email_of(lc))
          /\ xray_depends_on' = add_dependency(xray_depends_on, service_name_of(lc))
          /\ services' = alias_depends_on(
                             add_gluetun_service(services, service_name_of(lc),
                                 settings.nord_private_key, "",
                                 target_countries[idx].name, ss_password),
                             xray_depends_on')
          /\ outbounds' = add_shadowsocks_outbound(outbounds, tag_of(lc),
                              service_name_of(lc), ShadowsocksPort, ShadowsocksMethod,
                              ss_password)
          /\ routing_rules' = add_routing_rule(routing_rules, email_of(lc), tag_of(lc))
    /\ next_uuid' = next_uuid + 2
    /\ idx' = idx + 1
    /\ UNCHANGED <<env, settings, pc, exit_code, keys, target_countries, files, links,
                   skipped>>
    /\ UNCHANGED <<lookupVars, port, decryption_key, built, calls, last_call, keygen,
                   all_countries>>

\* main, lines 516-527, after the last country
DirectAccess ==
    /\ pc = "loop"
    /\ idx > Len(target_countries)
    /\ IF settings.enable_direct
       THEN /\ clients' = add_client(clients, next_uuid + 1, direct_email)
            /\ routing_rules' =
                 add_routing_rule(
                     add_blocking_rule(routing_rules, direct_email,
                                       <<"geoip:private">>, <<"geosite:private">>),
                     direct_email, "direct")
            /\ next_uuid' = next_uuid + 1
       ELSE UNCHANGED <<clients, routing_rules, next_uuid>>
    /\ pc' = "finalize"
    /\ UNCHANGED <<env, settings, exit_code, keys, target_countries, idx, files, links,
                   skipped>>
    /\ UNCHANGED <<lookupVars, port, decryption_key, outbounds, composeVars, built, calls, last_call, keygen,
                   all_countries>>

\* main, lines 530-538: add_xray_service, then config.json is written
WriteConfig ==
    /\ pc = "finalize"
    /\ services' = add_xray_service(services, xray_depends_on, settings.xray_port)
    /\ built' = build(port, decryption_key, clients, outbounds, routing_rules)
    /\ files' = [files EXCEPT !.config = built']
    /\ pc' = "write_compose"
    /\ UNCHANGED <<env, settings, exit_code, keys, target_countries, idx, next_uuid,
                   links, skipped>>
    /\ UNCHANGED <<lookupVars, xrayVars, xray_depends_on, calls, last_call, keygen,
                   all_countries>>

\* main, lines 543-546
WriteCompose ==
    /\ pc = "write_compose"
    /\ files' = [files EXCEPT !.compose = compose_build(services, settings.xray_network)]
    /\ pc' = "print_links"
    /\ UNCHANGED <<env, settings, exit_code, keys, target_countries, idx, next_uuid,
                   links, skipped>>
    /\ UNCHANGED <<lookupVars, xrayVars, composeVars, built, calls, last_call, keygen,
                   all_countries>>

\* main, lines 552-557, and the end of main
PrintLinks ==
    /\ pc = "print_links"
    /\ links' = print_vless_links(clients, settings.xray_domain, keys[2])
    /\ pc' = "done"
    /\ exit_code' = 0
    /\ UNCHANGED <<env, settings, keys, target_countries, idx, next_uuid, files, skipped>>
    /\ UNCHANGED <<lookupVars, xrayVars, composeVars, built, calls, last_call, keygen,
                   all_countries>>

Next ==
    \/ LoadSettings
    \/ GenerateKeys
    \/ InitBuilders
    \/ GetAllCountriesFails
    \/ GetAllCountries
    \/ FilterCountries
    \/ StartLookup
    \/ LookupGetFails
    \/ LookupSleep
    \/ LookupGetResponds
    \/ LookupReturns
    \/ SkipCountry
    \/ AddWireguardCountry
    \/ AddGluetunCountry
    \/ DirectAccess
    \/ WriteConfig
    \/ WriteCompose
    \/ PrintLinks

Spec == Init /\ [][Next]_vars

\* A run in which every step that is started ends: each GET returns or raises
\* (line 109 has timeout=10; the GET of line 87 has none and is taken to
\* answer), sleep(1) ends, the key command ends.
\* XRAY_PORT is left at its default: no branch of main reads the port.
InitFair == Init /\ env.XRAY_PORT = 0

FairSpec == InitFair /\ [][Next]_vars /\ WF_vars(Next)

(***************************************************************************)
(* The endpoint lookup driven alone: one call of get_recommended_server,   *)
(* the directory answering each GET with any pool up to MaxPool.           *)
(***************************************************************************)
InitLookup ==
    /\ env = [NORD_PRIVATE_KEY |-> "PRIV", NORD_COUNTRIES |-> <<"us">>, XRAY_PORT |-> 0,
              ENABLE_DIRECT |-> "", ENABLE_GLUETUN |-> ""]
    /\ settings = None
    /\ pc = "lookup_alone"
    /\ exit_code = -1
    /\ keys = <<"", "">>
    /\ target_countries = <<>>
    /\ idx = 0
    /\ next_uuid = 0
    /\ files = NoFiles
    /\ links = <<>>
    /\ skipped = {}
    /\ built = None
    /\ calls = 0
    /\ last_call = ""
    /\ keygen = None
    /\ all_countries = <<>>
    /\ Unbuilt
    /\ lpc = "get"
    /\ attempt = 0
    /\ data = NoData
    /\ server = None
    /\ trace = <<>>

NextLookup ==
    \/ LookupGetFails
    \/ LookupSleep
    \/ LookupGetResponds
    \/ LookupReturns

SpecLookup == InitLookup /\ [][NextLookup]_vars

(***************************************************************************)
(* The builders driven freely: any MaxCalls calls of their methods, in any *)
(* order, on freshly constructed builders.                                 *)
(***************************************************************************)
Emails == {"us.user@example.com", "direct.user@example.com"}
Tags == {"blocked", "direct", "nordvpn-us"}
ServiceNames == {"gluetun-us", "gluetun-jp"}

InitBuilder ==
    /\ env = [NORD_PRIVATE_KEY |-> "PRIV", NORD_COUNTRIES |-> <<"us">>, XRAY_PORT |-> 0,
              ENABLE_DIRECT |-> "", ENABLE_GLUETUN |-> ""]
    /\ settings = None
    /\ pc = "driver"
    /\ exit_code = -1
    /\ keys = <<"none", "none">>
    /\ target_countries = <<>>
    /\ idx = 0
    /\ next_uuid = 0
    /\ files = NoFiles
    /\ links = <<>>
    /\ skipped = {}
    /\ built = None
    /\ calls = 0
    /\ last_call = ""
    /\ keygen = None
    /\ all_countries = <<>>
    /\ port = DefaultPort
    /\ decryption_key = "none"
    /\ clients = <<>>
    /\ outbounds = initial_outbounds
    /\ routing_rules = initial_routing_rules
    /\ services = <<>>
    /\ xray_depends_on = <<>>
    /\ LookupIdle

\* One more call by the driver
called ==
    /\ pc = "driver"
    /\ calls < MaxCalls
    /\ calls' = calls + 1
    /\ UNCHANGED <<keygen, all_countries>>
    /\ UNCHANGED <<env, settings, pc, exit_code, keys, target_countries, idx, files,
                   links, skipped>>
    /\ UNCHANGED <<lookupVars, port, decryption_key>>

CallAddClient ==
    /\ called
    /\ last_call' = "add_client"
    /\ \E email \in Emails : clients' = add_client(clients, next_uuid + 1, email)
    /\ next_uuid' = next_uuid + 1
    /\ UNCHANGED <<outbounds, routing_rules, composeVars, built>>

CallAddWireguardOutbound ==
    /\ called
    /\ last_call' = "add_wireguard_outbound"
    /\ \E tag \in Tags :
         outbounds' = add_wireguard_outbound(outbounds, tag, "PRIV", 1, WireGuardPort, "KA")
    /\ UNCHANGED <<clients, routing_rules, composeVars, built, next_uuid>>

CallAddSocksOutbound ==
    /\ called
    /\ last_call' = "add_socks_outbound"
    /\ \E tag \in Tags :
         outbounds' = add_socks_outbound(outbounds, tag, "gluetun-us", ShadowsocksPort)
    /\ UNCHANGED <<clients, routing_rules, composeVars, built, next_uuid>>

CallAddShadowsocksOutbound ==
    /\ called
    /\ last_call' = "add_shadowsocks_outbound"
    /\ \E tag \in Tags :
         outbounds' = add_shadowsocks_outbound(outbounds, tag, "gluetun-us",
                                               ShadowsocksPort, ShadowsocksMethod, 7)
    /\ UNCHANGED <<clients, routing_rules, composeVars, built, next_uuid>>

CallAddRoutingRule ==
    /\ called
    /\ last_call' = "add_routing_rule"
    /\ \E email \in Emails, tag \in Tags :
         routing_rules' = add_routing_rule(routing_rules, email, tag)
    /\ UNCHANGED <<clients, outbounds, composeVars, built, next_uuid>>

CallAddBlockingRule ==
    /\ called
    /\ last_call' = "add_blocking_rule"
    /\ \E email \in Emails, ip_list \in {<<>>, <<"geoip:private">>} :
         routing_rules' = add_blocking_rule(routing_rules, email, ip_list,
                                            <<"geosite:private">>)
    /\ UNCHANGED <<clients, outbounds, composeVars, built, next_uuid>>

CallAddGluetunService ==
    /\ called
    /\ last_call' = "add_gluetun_service"
    /\ \E name \in ServiceNames, ss_password \in {7, 8} :
         /\ xray_depends_on' = add_dependency(xray_depends_on, name)
         /\ services' = alias_depends_on(
                            add_gluetun_service(services, name, "PRIV", "", "Japan",
                                                ss_password),
                            xray_depends_on')
    /\ UNCHANGED <<xrayVars, built, next_uuid>>

CallAddXrayService ==
    /\ called
    /\ last_call' = "add_xray_service"
    /\ services' = add_xray_service(services, xray_depends_on, port)
    /\ UNCHANGED <<xrayVars, xray_depends_on, built, next_uuid>>

CallBuild ==
    /\ called
    /\ last_call' = "build"
    /\ built' = build(port, decryption_key, clients, outbounds, routing_rules)
    /\ UNCHANGED <<xrayVars, composeVars, next_uuid>>

NextBuilder ==
    \/ CallAddClient
    \/ CallAddWireguardOutbound
    \/ CallAddSocksOutbound
    \/ CallAddShadowsocksOutbound
    \/ CallAddRoutingRule
    \/ CallAddBlockingRule
    \/ CallAddGluetunService
    \/ CallAddXrayService
    \/ CallBuild

SpecBuilder == InitBuilder /\ [][NextBuilder]_vars

(***************************************************************************)
(* The claims.                                                             *)
(***************************************************************************)
\* A candidate carries the required capability: a technology with id 35 that
\* has a metadata entry named public_key.
Capable(x) ==
    \E t \in Range(x.technologies) :
        /\ t.id = WireGuardTech
        /\ \E m \in Range(t.metadata) : m.name = "public_key"

\* The lookup has returned from a non-empty pool. The pool is in `data`, sorted
\* by then; hostname i is the candidate at position i of the response.
ReturnedFromPool == lpc = "returned" /\ Truthy(data)

\* c is the capable candidate of least load, the first such in the response.
BestCapable(c, pool) ==
    /\ c \in Range(pool)
    /\ Capable(c)
    /\ \A o \in Range(pool) :
         Capable(o) =>
            \/ load_key(c) < load_key(o)
            \/ load_key(c) = load_key(o) /\ c.hostname <= o.hostname

\* C1: whenever the pool the directory returned holds a capable candidate, the
\* lookup returns the capable candidate of minimum load (the first of them in
\* the response on a tie), and not None.
C1_ReturnsMinLoadCapable ==
    (ReturnedFromPool /\ \E c \in Range(data.list) : Capable(c))
        => /\ server # None
           /\ \E c \in Range(data.list) :
                BestCapable(c, data.list) /\ server.hostname = c.hostname

\* C2: every server the lookup returns has a non-empty public key, which is
\* the public_key metadata of a technology with id 35 of the candidate whose
\* hostname and station it returns.
C2_NeverReturnsIncapable ==
    (lpc = "returned" /\ server # None)
        => /\ server.public_key # ""
           /\ Truthy(data)
           /\ \E c \in Range(data.list) :
                /\ c.hostname = server.hostname
                /\ c.station = server.address
                /\ \E t \in Range(c.technologies) :
                     /\ t.id = WireGuardTech
                     /\ \E m \in Range(t.metadata) :
                          m.name = "public_key" /\ m.value = server.public_key

\* C2, the case: a server is returned from a pool that also holds a candidate
\* without the capability.
C2_Witness ==
    /\ lpc = "returned"
    /\ server # None
    /\ \E c \in Range(data.list) : ~Capable(c) /\ c.hostname # server.hostname

\* C3: a document build returns has no routing rule whose outboundTag is not
\* the tag of one of its outbounds.
C3_NoDanglingOutboundTag ==
    built # None =>
        \A i \in 1..Len(built.routing.rules) :
            \E j \in 1..Len(built.outbounds) :
                built.outbounds[j].tag = built.routing.rules[i].outboundTag

\* Kinds of rules in a rule list
IsBlockRule(r) == r.outboundTag = "blocked"
IsAllowRule(r) == r.user # <<>> /\ r.outboundTag # "blocked"

\* C4: in the rule list written to config.json every rule to "blocked" (the
\* geosite:cn rule and the direct identity's blocking rule) is at a smaller
\* index than every per-client allow rule.
C4_BlockRulesFirst ==
    files.config # None =>
        LET rules == files.config.routing.rules
        IN /\ \E i \in 1..Len(rules) :
                rules[i] = Rule(<<>>, "blocked", <<>>, <<"geosite:cn">>)
           /\ \A i, j \in 1..Len(rules) :
                (IsBlockRule(rules[i]) /\ IsAllowRule(rules[j])) => i < j

\* C4, the case: a written config with a region route, the direct identity's
\* blocking rule and its allow rule.
C4_Witness ==
    /\ files.config # None
    /\ LET rules == files.config.routing.rules
       IN /\ \E i \in 1..Len(rules) :
                rules[i].user = <<direct_email>> /\ IsBlockRule(rules[i])
          /\ \E i \in 1..Len(rules) :
                rules[i].user = <<direct_email>> /\ rules[i].outboundTag = "direct"
          /\ \E i \in 1..Len(rules) :
                IsAllowRule(rules[i]) /\ rules[i].outboundTag = "nordvpn-us"

\* C5: the outbound list never holds two outbounds with the same tag (a second
\* add with a stored tag is rejected).
C5_OutboundTagsUnique ==
    \A i, j \in 1..Len(outbounds) :
        outbounds[i].tag = outbounds[j].tag => i = j

\* The countries main() has added so far, in order: those before idx that
\* were not skipped.
RECURSIVE processed_upto(_)
processed_upto(k) ==
    IF k = 0 THEN <<>>
    ELSE processed_upto(k - 1)
         \o (IF k \in skipped THEN <<>> ELSE <<target_countries[k]>>)

ProcessedCountries == IF idx = 0 THEN <<>> ELSE processed_upto(idx - 1)

InOrAfterLoop == pc \in {"loop", "lookup", "finalize", "write_compose", "print_links", "done"}
AfterDirectAccess == pc \in {"finalize", "write_compose", "print_links", "done"}

\* d of a run: 1 once the direct identity has been added, else 0
DirectAdded == IF AfterDirectAccess /\ settings.enable_direct THEN 1 ELSE 0

\* C6: in the direct-tunnel strategy a country whose lookup returned None adds
\* nothing (the builders hold exactly what the countries not skipped and the
\* direct identity account for, and no tunnel service), the run never exits
\* with status 1 after a skip and is never stuck before done, and at done both
\* artifacts are written; when every country was skipped the config has only
\* the two default outbounds and no client but the direct identity.
C6_AbsentRegionSkipped ==
    /\ skipped # {} => (exit_code # 1 /\ (pc = "done" \/ ENABLED Next))
    /\ (InOrAfterLoop /\ ~settings.enable_gluetun) =>
         LET n == Len(ProcessedCountries)
             d == DirectAdded
         IN /\ Len(clients) = n + d
            /\ Len(outbounds) = 2 + n
            /\ Len(routing_rules) = 1 + n + 2 * d
            /\ dict_keys(services) \subseteq {"xray"}
            /\ xray_depends_on = <<>>
            /\ pc = "done" =>
                 /\ exit_code = 0
                 /\ files.config # None
                 /\ files.compose # None
                 /\ n = 0 =>
                      /\ files.config.outbounds = initial_outbounds
                      /\ Len(files.config.inbounds[1].settings.clients) = d
                      /\ \A i \in 1..d :
                           files.config.inbounds[1].settings.clients[i].email = direct_email

\* C6, the case: the first country was skipped, the second was added, and the
\* run is done.
C6_Witness ==
    /\ pc = "done"
    /\ ~settings.enable_gluetun
    /\ Len(target_countries) = 2
    /\ skipped = {1}
    /\ Len(clients) >= 1

\* Number of entries of the lookup's trace that are e
RECURSIVE count_of(_, _)
count_of(t, e) ==
    IF t = <<>> THEN 0
    ELSE (IF Head(t) = e THEN 1 ELSE 0) + count_of(Tail(t), e)

IsGet(e) == e \in {"get_failed", "get_ok"}

\* C7: a lookup whose three GETs all failed returns something other than the
\* value returned for 'absent' (None, lines 120 and 139).
C7_HardFailureDistinctFromAbsent ==
    (lpc = "returned" /\ count_of(trace, "get_failed") = MaxAttempts)
        => server # None

\* C8: a lookup issues at most 3 GETs, and every GET but the first comes right
\* after a backoff sleep that comes right after a failed GET (so none follows
\* an answered GET).
C8_RetryOnlyAfterFailureWithBackoff ==
    /\ count_of(trace, "get_failed") + count_of(trace, "get_ok") <= MaxAttempts
    /\ \A i \in 2..Len(trace) :
         IsGet(trace[i]) =>
            /\ trace[i - 1] = "sleep"
            /\ i >= 3
            /\ trace[i - 2] = "get_failed"

\* The port the run is configured with: XRAY_PORT, 10000 when unset
ConfiguredPort == IF env.XRAY_PORT = 0 THEN DefaultPort ELSE env.XRAY_PORT

\* C9: the config written has inbounds[0].port = the configured port, and its
\* outbounds are the blackhole "blocked", the freedom "direct", then one
\* tunnel outbound per country added, in the order of the filtered list:
\* 2 + n outbounds (direct egress adds none).
C9_PortAndOutboundList ==
    files.config # None =>
        LET doc == files.config
            regs == ProcessedCountries
        IN /\ doc.inbounds[1].port = ConfiguredPort
           /\ Len(doc.outbounds) = 2 + Len(regs)
           /\ doc.outbounds[1].protocol = "blackhole"
           /\ doc.outbounds[1].tag = "blocked"
           /\ doc.outbounds[2].protocol = "freedom"
           /\ doc.outbounds[2].tag = "direct"
           /\ \A k \in 1..Len(regs) :
                /\ doc.outbounds[2 + k].tag = tag_of(lower(regs[k].code))
                /\ doc.outbounds[2 + k].protocol \in {"wireguard", "shadowsocks"}

\* C9, the case: a config written on a port that is not the default, with
\* direct egress on, in the direct-tunnel strategy, after one country was
\* skipped and one was added.
C9_Witness ==
    /\ files.config # None
    /\ env.XRAY_PORT # 0
    /\ settings.enable_direct
    /\ ~settings.enable_gluetun
    /\ skipped # {}
    /\ Len(files.config.outbounds) = 3

\* Number of rules of a list that satisfy a test
CountRules(rules, Test(_)) == Cardinality({i \in 1..Len(rules) : Test(rules[i])})

IsDefaultBlock(r) == r.user = <<>> /\ r.outboundTag = "blocked"
IsDirectBlock(r) == r.user = <<direct_email>> /\ r.outboundTag = "blocked"
IsDirectAllow(r) == r.user = <<direct_email>> /\ r.outboundTag = "direct"
IsRegionRoute(r) == r.user # <<>> /\ r.outboundTag \notin {"blocked", "direct"}

\* C10: with n countries added and direct egress d, the config written holds
\* n + d clients and 1 + n + 2d rules: the default block rule, n routes to
\* region tunnels, and d blocking rules and d allow rules to "direct" for the
\* direct identity.
C10_ClientAndRuleCounts ==
    files.config # None =>
        LET doc == files.config
            rules == doc.routing.rules
            n == Len(ProcessedCountries)
            d == IF settings.enable_direct THEN 1 ELSE 0
        IN /\ Len(doc.inbounds[1].settings.clients) = n + d
           /\ Len(rules) = 1 + n + 2 * d
           /\ CountRules(rules, IsDefaultBlock) = 1
           /\ CountRules(rules, IsRegionRoute) = n
           /\ CountRules(rules, IsDirectBlock) = d
           /\ CountRules(rules, IsDirectAllow) = d

\* C10, the case n = 0, d = 1: one client, two blocking rules ahead of the one
\* allow rule.
C10_Witness ==
    /\ files.config # None
    /\ settings.enable_direct
    /\ Len(ProcessedCountries) = 0
    /\ Len(files.config.inbounds[1].settings.clients) = 1
    /\ LET rules == files.config.routing.rules
       IN /\ Len(rules) = 3
          /\ IsBlockRule(rules[1])
          /\ IsBlockRule(rules[2])
          /\ IsDirectAllow(rules[3])

\* The names of the tunnel services of a services dict
TunnelServiceNames(svcs) ==
    {svcs[i][1] : i \in {j \in 1..Len(svcs) : svcs[j][2].image = "qmcgaw/gluetun"}}

Distinct(list, F(_)) ==
    \A i, j \in 1..Len(list) : F(list[i]) = F(list[j]) => i = j

EmailOf(c) == c.email
IdOf(c) == c.id
TagOf(o) == o.tag

\* C13: in the config written by a run the client emails are pairwise
\* distinct, the client ids are pairwise distinct and the outbound tags are
\* pairwise distinct.
C13_LabelsIdsTagsUnique ==
    files.config # None =>
        /\ Distinct(files.config.inbounds[1].settings.clients, EmailOf)
        /\ Distinct(files.config.inbounds[1].settings.clients, IdOf)
        /\ Distinct(files.config.outbounds, TagOf)

\* What of C13 the code keeps: the client ids are pairwise distinct.
ClientIdsUnique == Distinct(clients, IdOf)

\* C14: the client list never holds two identities with the same email (an
\* add_client with a stored email fails and changes nothing).
C14_ClientLabelsUnique == Distinct(clients, EmailOf)

\* C15: a fatal startup condition ends the run with status 1 and nothing
\* written. A missing key or country list stops the run before anything is
\* constructed; a run that exits with status 1 has written no file, printed no
\* link, issued no lookup and added no client, tunnel, route or service, and
\* takes no further step; the loop is entered, and files are written, only
\* with both settings present and at least one catalog country matched.
C15_FatalStartupWritesNothing ==
    /\ (env.NORD_PRIVATE_KEY = "" \/ env.NORD_COUNTRIES = <<>>) =>
         /\ pc \in {"load_settings", "exit"}
         /\ settings = None
         /\ Unbuilt
    /\ exit_code = 1 =>
         /\ pc = "exit"
         /\ files = NoFiles
         /\ links = <<>>
         /\ LookupIdle
         /\ clients = <<>>
         /\ services = <<>>
         /\ xray_depends_on = <<>>
         /\ outbounds \in {<<>>, initial_outbounds}
         /\ routing_rules \in {<<>>, initial_routing_rules}
         /\ ~ENABLED Next
    /\ (InOrAfterLoop \/ files # NoFiles) =>
         /\ exit_code # 1
         /\ env.NORD_PRIVATE_KEY # ""
         /\ env.NORD_COUNTRIES # <<>>
         /\ target_countries # <<>>

\* C15, the case: the run ended with status 1 after the builders were
\* constructed (the catalog was unreachable or matched no requested code).
C15_Witness ==
    /\ pc = "exit"
    /\ exit_code = 1
    /\ settings # None
    /\ outbounds = initial_outbounds

\* The key-generation command failed, or its output lacks one of the pairs
KeygenUnusable ==
    /\ keygen # None
    /\ (keygen.failed \/ keygen.decryption = "" \/ keygen.encryption = "")

\* C16: once the keys are generated, the run uses either both generated keys
\* or the sentinel "none" for both, never one of each; when the command
\* failed or a pair could not be parsed both are "none", the builder and the
\* config written carry decryption "none", every link printed carries
\* encryption "none", and the run goes on (it is past key generation, is
\* never stuck, and ends with status 1 only from the catalog step).
C16_KeygenFallbackBothNone ==
    /\ keygen # None =>
         \/ keys = <<"none", "none">>
         \/ /\ keys = <<keygen.decryption, keygen.encryption>>
            /\ keygen.decryption # ""
            /\ keygen.encryption # ""
            /\ ~keygen.failed
    /\ KeygenUnusable =>
         /\ keys = <<"none", "none">>
         /\ pc # "generate_keys"
         /\ pc # "init_builders" => decryption_key = "none"
         /\ files.config # None =>
              files.config.inbounds[1].settings.decryption = "none"
         /\ \A i \in 1..Len(links) : links[i].encryption = "none"
         /\ pc = "done" => Len(links) = Len(clients)
         /\ pc \in {"done", "exit"} \/ ENABLED Next
         /\ exit_code = 1 => outbounds = initial_outbounds

\* C16, the case: the command printed a decryption pair only, and the run is
\* done with a link printed.
C16_Witness ==
    /\ pc = "done"
    /\ keygen # None
    /\ ~keygen.failed
    /\ keygen.decryption = "DEC"
    /\ keygen.encryption = ""
    /\ Len(links) >= 1
    /\ links[1].encryption = "none"
    /\ files.config.inbounds[1].settings.decryption = "none"

\* new is old, or old with one entry appended
Appended(old, new) ==
    \/ new = old
    \/ Len(new) = Len(old) + 1 /\ SubSeq(new, 1, Len(old)) = old

\* new is old with one entry inserted in front
Prepended(old, new) ==
    Len(new) = Len(old) + 1 /\ SubSeq(new, 2, Len(new)) = old

\* The collections of the two builders a step changes
ChangedCollections ==
    (IF clients' # clients THEN {"clients"} ELSE {})
    \cup (IF outbounds' # outbounds THEN {"outbounds"} ELSE {})
    \cup (IF routing_rules' # routing_rules THEN {"routing_rules"} ELSE {})
    \cup (IF services' # services \/ xray_depends_on' # xray_depends_on
          THEN {"services"} ELSE {})

\* The XrayConfigBuilder half of C17: its three lists only grow, one at a time.
XrayAppendOnly ==
    [][/\ Appended(clients, clients')
       /\ Appended(outbounds, outbounds')
       /\ Appended(routing_rules, routing_rules') \/ Prepended(routing_rules, routing_rules')
       /\ Cardinality(ChangedCollections \ {"services"}) <= 1]_vars

\* C17: every builder call keeps every stored entry as it is and in its
\* place relative to the others, adds at most one entry (at the end; at the
\* front for add_blocking_rule), and changes one builder collection only.
C17_AppendOnly ==
    [][/\ Appended(clients, clients')
       /\ Appended(outbounds, outbounds')
       /\ Appended(routing_rules, routing_rules') \/ Prepended(routing_rules, routing_rules')
       /\ Appended(services, services')
       /\ Appended(xray_depends_on, xray_depends_on')
       /\ Cardinality(ChangedCollections) <= 1]_vars

\* The steps main may take from one position to the next
MainOrder ==
    { <<"load_settings", "generate_keys">>, <<"load_settings", "exit">>,
      <<"generate_keys", "init_builders">>,
      <<"init_builders", "get_all_countries">>,
      <<"get_all_countries", "filter_countries">>, <<"get_all_countries", "exit">>,
      <<"filter_countries", "loop">>, <<"filter_countries", "exit">>,
      <<"loop", "lookup">>, <<"lookup", "lookup">>, <<"lookup", "loop">>,
      <<"loop", "loop">>, <<"loop", "finalize">>,
      <<"finalize", "write_compose">>, <<"write_compose", "print_links">>,
      <<"print_links", "done">> }

\* target is the wanted entries of all, each once, in the order of all
IsFilteredOf(all, target) ==
    \E f \in [1..Len(target) -> 1..Len(all)] :
        /\ \A i \in 1..Len(target) : target[i] = all[f[i]]
        /\ \A i, j \in 1..Len(target) : i < j => f[i] < f[j]
        /\ \A k \in 1..Len(all) :
             (upper(all[k].code) \in Range(settings.nord_countries))
                 <=> (\E i \in 1..Len(target) : f[i] = k)

\* One step of a run, as C18 orders it.
C18_Step ==
    /\ <<pc, pc'>> \in MainOrder
    \* the regions are fixed once, when the loop is entered, as the filtered
    \* directory answer
    /\ (target_countries' # target_countries \/ (idx' = 1 /\ idx = 0)) <=>
           (pc = "filter_countries" /\ pc' = "loop")
    /\ (pc = "filter_countries" /\ pc' = "loop") =>
           /\ idx' = 1
           /\ target_countries' # <<>>
           /\ IsFilteredOf(all_countries, target_countries')
    \* one region at a time, each once, in order: the loop returns to its head
    \* exactly when it has finished the region at idx, and moves to the next
    /\ (pc' = "loop" /\ pc \in {"loop", "lookup"}) <=> (idx' = idx + 1 /\ idx >= 1)
    /\ idx' # idx => idx' = idx + 1
    /\ (pc' = "loop" /\ pc \in {"loop", "lookup"}) =>
           /\ idx <= Len(target_countries)
           /\ \/ /\ idx \in skipped'
                 /\ clients' = clients
              \/ /\ idx \notin skipped'
                 /\ Len(clients') = Len(clients) + 1
                 /\ clients'[Len(clients')].email =
                        email_of(lower(target_countries[idx].code))
    /\ (pc = "loop" /\ pc' = "lookup") =>
           (idx <= Len(target_countries) /\ clients' = clients)
    \* the direct-access step comes after the last region, and only there is
    \* the direct identity added
    /\ pc' = "finalize" =>
           /\ pc = "loop"
           /\ idx = Len(target_countries) + 1
           /\ idx' = idx
           /\ IF settings.enable_direct
              THEN /\ Len(clients') = Len(clients) + 1
                   /\ clients'[Len(clients')].email = direct_email
              ELSE clients' = clients
    \* finalize happens once, after that: each file is written once
    /\ files' # files =>
           \/ /\ pc = "finalize"
              /\ files = NoFiles
              /\ files'.config # None
              /\ files'.compose = None
           \/ /\ pc = "write_compose"
              /\ files.compose = None
              /\ files'.compose # None
              /\ files'.config = files.config
    /\ pc \in {"finalize", "write_compose", "print_links"} =>
           (clients' = clients /\ outbounds' = outbounds /\ routing_rules' = routing_rules)

\* C18: every run goes load -> regions one at a time, each once, in the
\* filtered directory order -> direct access after the last region ->
\* finalize once -> done; and when every step that is started ends, the run
\* reaches done or a fatal exit.
C18_RunOrderAndTermination ==
    /\ [][C18_Step]_vars
    /\ [](pc = "done" =>
            /\ idx = Len(target_countries) + 1
            /\ files.config # None /\ files.compose # None
            /\ exit_code = 0)
    /\ [](pc = "exit" => (exit_code = 1 /\ files = NoFiles))
    /\ <>(pc \in {"done", "exit"})

\* a finished run over two regions, one skipped and one added
C18_Witness ==
    /\ pc = "done"
    /\ Len(target_countries) = 2
    /\ skipped = {1}
    /\ Len(clients) >= 1

\* The indexes of the allow rules of `rules` that match the label `email`
AllowRulesFor(rules, email) ==
    {k \in 1..Len(rules) : IsAllowRule(rules[k]) /\ email \in Range(rules[k].user)}

\* The indexes of the allow rules of `rules` that send to the outbound `tag`
AllowRulesTo(rules, tag) ==
    {k \in 1..Len(rules) : IsAllowRule(rules[k]) /\ rules[k].outboundTag = tag}

\* C19: in the config written by a run each client has exactly one allow rule
\* matching its email, to the outbound added in the same loop iteration (the
\* i-th client goes with the i-th outbound after the two default ones), or to
\* "direct" for the direct identity; and each region outbound is the target
\* of exactly one allow rule.
C19_OneRoutePerClient ==
    files.config # None =>
        LET cl == files.config.inbounds[1].settings.clients
            obs == files.config.outbounds
            rules == files.config.routing.rules
            n == Len(cl) - DirectAdded
        IN /\ Len(obs) = 2 + n
           /\ \A i \in 1..Len(cl) :
                LET allow == AllowRulesFor(rules, cl[i].email)
                    expected == IF i > n THEN "direct" ELSE obs[2 + i].tag
                IN /\ Cardinality(allow) = 1
                   /\ \A k \in allow : rules[k].outboundTag = expected
           /\ \A j \in 3..Len(obs) : Cardinality(AllowRulesTo(rules, obs[j].tag)) = 1

\* The value of the entry `name` of a service environment, 0 when it has none
EnvValue(environment, name) ==
    IF \E i \in 1..Len(environment) : environment[i].name = name
    THEN environment[CHOOSE i \in 1..Len(environment) : environment[i].name = name].value
    ELSE 0

IsRelay(o) == o.protocol = "shadowsocks"
RelayPassword(o) == o.settings.servers[1].password

\* C20: in a Gluetun run, once both files are written, every shadowsocks
\* outbound of config.json names a service of docker-compose.yml as its
\* address, its password and method are the SHADOWSOCKS_PASSWORD and
\* SHADOWSOCKS_METHOD of that service's environment, there is one such
\* outbound per country processed, and no two of them share a password.
C20_RelayMatchesSidecar ==
    (files.config # None /\ files.compose # None /\ settings.enable_gluetun) =>
        LET obs == files.config.outbounds
            svcs == files.compose.services
            relays == {j \in 1..Len(obs) : IsRelay(obs[j])}
        IN /\ Cardinality(relays) = Len(target_countries)
           /\ \A j \in relays :
                LET srv == obs[j].settings.servers[1]
                IN /\ srv.address \in dict_keys(svcs) \ {"xray"}
                   /\ LET environment == dict_value(svcs, srv.address).environment
                      IN /\ EnvValue(environment, "SHADOWSOCKS_PASSWORD") = srv.password
                         /\ EnvValue(environment, "SHADOWSOCKS_METHOD") = srv.method
                         /\ EnvValue(environment, "SERVER_COUNTRIES")
                                = target_countries[j - 2].name
           /\ \A j, k \in relays : j # k => RelayPassword(obs[j]) # RelayPassword(obs[k])

\* What of C19 and C20 the code keeps: both hold in every run whose labels and
\* tags are pairwise distinct.
RoutesAndRelaysWhenDistinct ==
    C13_LabelsIdsTagsUnique => (C19_OneRoutePerClient /\ C20_RelayMatchesSidecar)

====
